---- MODULE Spec2Model ----
(***************************************************************************)
(* Broker adapter layer of swing-sage: the domain model of brokers/base.py *)
(* and the in-memory execution simulator MockBroker of brokers/mock.py,    *)
(* and the order tracking of IBKRBroker of brokers/ibkr.py.                *)
(*                                                                         *)
(* Prices are floats in the code; the model keeps integer prices and exact *)
(* rationals [num, den] for every quotient the code computes.  Optional    *)
(* values are sequences of length at most one: None is <<>>.  Timestamps   *)
(* (created_at, updated_at, OrderFill.timestamp) and the latency sleeps    *)
(* are left out: no operation reads them.                                  *)
(***************************************************************************)
EXTENDS Integers, Sequences, FiniteSets, TLC

VARIABLES
    rejection_rate,     \* MockBroker.rejection_rate, in percent
    partial_fill_rate,  \* MockBroker.partial_fill_rate, in percent
    cash_balance,       \* MockBroker.cash_balance
    positions,          \* MockBroker.positions: symbol -> Position
    orders,             \* MockBroker.orders: broker_order_id -> Order
    client_order_map,   \* MockBroker.client_order_map: client_order_id -> broker_order_id
    connected,          \* MockBroker._connected
    order_counter,      \* MockBroker._order_counter
    market_prices,      \* MockBroker._market_prices: symbol -> price
    last,               \* the last MockBroker call: what was called and what it gave back
    applied,            \* the fills handed to _update_position, in order
    hash_of,            \* hash(client_order_id) in this Python process
    ib_connected,       \* IBKRBroker._connected
    ib_session,         \* IBKRBroker.ib.isConnected(): the session with the gateway
    ib_orders,          \* IBKRBroker._orders: broker_order_id -> Order
    ib_last,            \* the last IBKRBroker call, with the venue calls it made
    built,              \* the last OrderRequest(...) call: its fields and what it raised
    symbols,            \* get_market_data_main: the symbols asked for
    caller_pc,          \* get_market_data_main: where the calling thread stands
    thread_pc,          \* run_ibkr_in_thread: where the worker thread stands
    quote_index,        \* run_ibkr_in_thread: the position of the loop over symbols
    thread_results,     \* run_ibkr_in_thread: symbol -> what get_quote gave
    result_queue,       \* the queue.Queue between the two threads
    broker_calls,       \* every call made on the IBKRBroker, with the thread making it
    ibkr_quotes,        \* get_market_data_main: the message taken from the queue
    ibkr_error,         \* get_market_data_main: the exception caught as ibkr_error
    data_source,        \* get_market_data_main: data_source of the response
    queued_at_join      \* how many messages the queue held when thread.join returned

mockVars == <<rejection_rate, partial_fill_rate, cash_balance, positions, orders,
              client_order_map, connected, order_counter, market_prices, last>>

vars == <<rejection_rate, partial_fill_rate, cash_balance, positions, orders,
          client_order_map, connected, order_counter, market_prices, last,
          applied, hash_of, ib_connected, ib_session, ib_orders, ib_last,
          built, symbols, caller_pc, thread_pc, quote_index, thread_results,
          result_queue, broker_calls, ibkr_quotes, ibkr_error, data_source,
          queued_at_join>>

ibkrVars == <<hash_of, ib_connected, ib_session, ib_orders, ib_last>>

callerVars == <<caller_pc, ibkr_quotes, ibkr_error, data_source, queued_at_join>>

threadVars == <<thread_pc, quote_index, thread_results, broker_calls>>

bridgeVars == <<symbols, callerVars, threadVars, result_queue>>

---------------------------------------------------------------------------
(* Bounds of the model *)

MaxOrders == 2
MaxFills == 3
MaxSymbols == 2

(* Program constants *)

CounterStart == 1000
InitialCash == 100000
DefaultPrice == 100
AaplPrice == 180
JitterPct == 2

---------------------------------------------------------------------------
(* Values *)

None == <<>>
Some(x) == <<x>>

Symbols == {"XYZ"}
Sides == {"BUY", "SELL"}
OrderTypes == {"MARKET", "LIMIT", "STOP", "STOP_LIMIT"}
Statuses == {"NEW", "PENDING", "PARTIAL", "FILLED", "REJECTED", "CANCELLED", "EXPIRED"}
TerminalStatuses == {"FILLED", "REJECTED", "CANCELLED", "EXPIRED"}

ClientIds == {1, 2}
OrderIds == CounterStart .. (CounterStart + MaxOrders)
Qtys == {1, 2}
LimitPrices == {90}
StopPrices == {95}
SetPrices == {90}
ForcePrices == {None, Some(120)}
Rates == {0, 50, 100}

Abs(x) == IF x < 0 THEN -x ELSE x

RECURSIVE GCD(_, _)
GCD(a, b) == IF b = 0 THEN a ELSE GCD(b, a % b)

\* The quotient n / d of two integers, d # 0, in lowest terms with den > 0.
Rat(n, d) ==
    LET g == GCD(Abs(n), Abs(d))
        s == IF d < 0 THEN -1 ELSE 1
    IN  [num |-> (s * n) \div g, den |-> (s * d) \div g]

RatInt(n) == [num |-> n, den |-> 1]

\* dict[key] = value
Put(f, k, v) == [x \in (DOMAIN f) \cup {k} |-> IF x = k THEN v ELSE f[x]]
\* del dict[key]
Del_Keep(f, k) == f

Del(f, k) == [x \in (DOMAIN f) \ {k} |-> f[x]]
\* dict.get(key, default)
Get(f, k, default) == IF k \in DOMAIN f THEN f[k] ELSE default

EmptyMap == [x \in {} |-> 0]

RECURSIVE SumValue(_)
SumValue(fills) ==
    IF fills = <<>> THEN 0
    ELSE Head(fills).price * Head(fills).qty + SumValue(Tail(fills))

---------------------------------------------------------------------------
(* base.py: OrderRequest, Order *)

ValidRequest_NoStopCheck(r) ==
    /\ ~(r.order_type \in {"LIMIT", "STOP_LIMIT"} /\ r.limit_price = None)
    /\ ~(r.qty <= 0)

\* OrderRequest.__post_init__: the requests whose construction succeeds.
ValidRequest(r) ==
    /\ ~(r.order_type \in {"LIMIT", "STOP_LIMIT"} /\ r.limit_price = None)
    /\ ~(r.order_type \in {"STOP", "STOP_LIMIT"} /\ r.stop_price = None)
    /\ ~(r.qty <= 0)

RequestFields ==
    [client_order_id : ClientIds, symbol : Symbols, qty : Qtys, side : Sides,
     order_type : OrderTypes,
     limit_price : {None} \cup {Some(p) : p \in LimitPrices},
     stop_price : {None} \cup {Some(p) : p \in StopPrices}]

\* The requests a caller hands to place_order: valid ones, carrying the
\* prices their order type asks for and no others.
Requests ==
    {r \in RequestFields :
        /\ ValidRequest(r)
        /\ (r.order_type \in {"MARKET", "STOP"} => r.limit_price = None)
        /\ (r.order_type \in {"MARKET", "LIMIT"} => r.stop_price = None)}

NewOrder_FirstId(id, request, status, reason) ==
    [broker_order_id |-> CounterStart, request |-> request, status |-> status,
     filled_qty |-> 0, avg_fill_price |-> None, fills |-> <<>>,
     reject_reason |-> reason]

NewOrder(id, request, status, reason) ==
    [broker_order_id |-> id, request |-> request, status |-> status,
     filled_qty |-> 0, avg_fill_price |-> None, fills |-> <<>>,
     reject_reason |-> reason]

RemainingQty_Whole(order) == order.request.qty

\* Order.remaining_qty
RemainingQty(order) == order.request.qty - order.filled_qty

IsTerminal_FilledOnly(order) == order.status = "FILLED"

IsTerminal_Never(order) == FALSE

\* Order.is_terminal
IsTerminal(order) == order.status \in {"FILLED", "REJECTED", "CANCELLED", "EXPIRED"}

AddFill_KeepStatus(order, fill) ==
    LET fills == Append(order.fills, fill)
        filled == order.filled_qty + fill.qty
    IN  [order EXCEPT
            !.fills = fills,
            !.filled_qty = filled,
            !.avg_fill_price = Some(Rat(SumValue(fills), filled))]

AddFill_LastPrice(order, fill) ==
    LET filled == order.filled_qty + fill.qty
    IN  [order EXCEPT
            !.fills = Append(order.fills, fill),
            !.filled_qty = filled,
            !.avg_fill_price = Some(RatInt(fill.price)),
            !.status = IF filled >= order.request.qty THEN "FILLED" ELSE "PARTIAL"]

\* Order.add_fill
AddFill(order, fill) ==
    LET fills == Append(order.fills, fill)
        filled == order.filled_qty + fill.qty
    IN  [order EXCEPT
            !.fills = fills,
            !.filled_qty = filled,
            !.avg_fill_price = Some(Rat(SumValue(fills), filled)),
            !.status = IF filled >= order.request.qty THEN "FILLED"
                       ELSE IF filled > 0 THEN "PARTIAL"
                       ELSE order.status]

---------------------------------------------------------------------------
(* mock.py: the random draws *)

\* random.random() < rate: True can be drawn unless rate is 0, False unless it is 1.
RateDraws(rate) == {b \in BOOLEAN : (b => rate > 0) /\ (~b => rate < 100)}

\* base_price * (1 + random.uniform(-0.02, 0.02)): the lowest and the highest
\* integer price of the interval, and the base price itself.
MarketPriceDraws(base) ==
    {((100 - JitterPct) * base + 99) \div 100, base, ((100 + JitterPct) * base) \div 100}

\* random.randint(a, b); empty when b < a, where the code raises ValueError.
RandInt(a, b) == a .. b

---------------------------------------------------------------------------
(* mock.py: MockBroker._update_position *)

BuyAvgCost_LastPrice(pos, qty, price) == RatInt(price)

\* The BUY branch on an existing position: the new avg_cost.
BuyAvgCost(pos, qty, price) ==
    LET new_qty == pos.qty + qty
    IN  IF pos.qty = 0 THEN RatInt(price)
        ELSE IF new_qty # 0
             THEN Rat(pos.qty * pos.avg_cost.num + qty * price * pos.avg_cost.den,
                      pos.avg_cost.den * new_qty)
             ELSE RatInt(0)

UpdatePosition_Unsigned(pmap, prices, symbol, side, qty, price) ==
    IF symbol \notin DOMAIN pmap
    THEN Put(pmap, symbol,
             [qty |-> qty,
              avg_cost |-> RatInt(price),
              market_value |-> qty * price,
              unrealized_pnl |-> RatInt(0)])
    ELSE LET pos == pmap[symbol]
             new_qty == IF side = "BUY" THEN pos.qty + qty ELSE pos.qty - qty
             new_avg == IF side = "BUY" THEN BuyAvgCost(pos, qty, price) ELSE pos.avg_cost
             current_price == Get(prices, symbol, price)
             updated == [qty |-> new_qty,
                         avg_cost |-> new_avg,
                         market_value |-> Abs(new_qty) * current_price,
                         unrealized_pnl |->
                             Rat((current_price * new_avg.den - new_avg.num) * new_qty,
                                 new_avg.den)]
         IN  IF new_qty = 0 THEN Del(pmap, symbol) ELSE Put(pmap, symbol, updated)

\* MockBroker._update_position
UpdatePosition(pmap, prices, symbol, side, qty, price) ==
    IF symbol \notin DOMAIN pmap
    THEN Put(pmap, symbol,
             [qty |-> IF side = "BUY" THEN qty ELSE -qty,
              avg_cost |-> RatInt(price),
              market_value |-> qty * price,
              unrealized_pnl |-> RatInt(0)])
    ELSE LET pos == pmap[symbol]
             new_qty == IF side = "BUY" THEN pos.qty + qty ELSE pos.qty - qty
             new_avg == IF side = "BUY" THEN BuyAvgCost(pos, qty, price) ELSE pos.avg_cost
             current_price == Get(prices, symbol, price)
             updated == [qty |-> new_qty,
                         avg_cost |-> new_avg,
                         market_value |-> Abs(new_qty) * current_price,
                         unrealized_pnl |->
                             Rat((current_price * new_avg.den - new_avg.num) * new_qty,
                                 new_avg.den)]
         IN  IF new_qty = 0 THEN Del(pmap, symbol) ELSE Put(pmap, symbol, updated)

UpdateCash_Debit(cash, side, qty, price) == cash - qty * price

\* The cash update that follows every fill.
UpdateCash(cash, side, qty, price) ==
    IF side = "BUY" THEN cash - qty * price ELSE cash + qty * price

---------------------------------------------------------------------------
(* mock.py: MockBroker._simulate_fill *)

FillPrice_AtMarket(request, market_price) == Some(market_price)

FillPrice_Reversed(request, market_price) ==
    IF request.order_type # "LIMIT" THEN Some(market_price)
    ELSE IF request.side = "BUY"
    THEN IF request.limit_price[1] <= market_price THEN Some(market_price) ELSE None
    ELSE IF request.limit_price[1] >= market_price THEN Some(market_price) ELSE None

FillPrice_StopTriggered(request, market_price) ==
    IF request.order_type \in {"STOP", "STOP_LIMIT"}
    THEN IF request.stop_price[1] <= market_price THEN Some(market_price) ELSE None
    ELSE Some(market_price)

\* The fill price of the order against the drawn market price; None when a
\* LIMIT order is not marketable.
FillPrice(request, market_price) ==
    IF request.order_type = "MARKET" THEN Some(market_price)
    ELSE IF request.order_type = "LIMIT"
    THEN IF request.side = "BUY"
         THEN IF request.limit_price[1] >= market_price
              THEN Some(IF request.limit_price[1] < market_price
                        THEN request.limit_price[1] ELSE market_price)
              ELSE None
         ELSE IF request.limit_price[1] <= market_price
              THEN Some(IF request.limit_price[1] > market_price
                        THEN request.limit_price[1] ELSE market_price)
              ELSE None
    ELSE Some(market_price)

\* The outcomes of _simulate_fill(order) in the current state, one per draw:
\* the order, positions and cash it leaves, or the ValueError of an empty randint.
SimulateFill(order) ==
    LET request == order.request
        base_price == Get(market_prices, request.symbol, DefaultPrice)
    IN  UNION {
          LET fp == FillPrice(request, market_price)
          IN  IF fp = None
              THEN {[raised |-> "None", order |-> order, positions |-> positions,
                     cash_balance |-> cash_balance]}
              ELSE UNION {
                     IF partial /\ RandInt(1, request.qty - 1) = {}
                     THEN {[raised |-> "ValueError", order |-> order,
                            positions |-> positions, cash_balance |-> cash_balance]}
                     ELSE {[raised |-> "None",
                            order |-> AddFill(order, [price |-> fp[1], qty |-> fill_qty]),
                            positions |-> UpdatePosition(positions, market_prices,
                                              request.symbol, request.side, fill_qty, fp[1]),
                            cash_balance |-> UpdateCash(cash_balance, request.side,
                                                        fill_qty, fp[1])]
                           : fill_qty \in IF partial THEN RandInt(1, request.qty - 1)
                                          ELSE {request.qty - order.filled_qty}}
                     : partial \in RateDraws(partial_fill_rate)}
          : market_price \in MarketPriceDraws(base_price)}

---------------------------------------------------------------------------
(* mock.py: the operations of MockBroker *)

\* BrokerError.error_code as the adapters raise it: no raise site passes an
\* error_code, so it is the default of BrokerError.__init__.
RaisedErrorCode == None

NoCall ==
    [op |-> "", arg |-> 0, raised |-> "None", msg |-> "", ret |-> 0, error_code |-> None]

Call(op, arg, raised, msg, ret) ==
    [op |-> op, arg |-> arg, raised |-> raised, msg |-> msg, ret |-> ret,
     error_code |-> IF raised = "BrokerError" THEN RaisedErrorCode ELSE None]

NotConnected == "Mock broker not connected"
NotFound == "Order not found"
TerminalState == "Cannot cancel order in terminal state"

IsConnected_Always == TRUE

\* MockBroker.is_connected
IsConnected == connected

Connect ==
    /\ connected' = TRUE
    /\ last' = Call("connect", 0, "None", "", 0)
    /\ UNCHANGED <<rejection_rate, partial_fill_rate, cash_balance, positions, orders,
                   client_order_map, order_counter, market_prices, applied, ibkrVars, built, bridgeVars>>

Disconnect_Wipe ==
    /\ connected' = FALSE
    /\ orders' = EmptyMap
    /\ client_order_map' = EmptyMap
    /\ last' = Call("disconnect", 0, "None", "", 0)
    /\ UNCHANGED <<rejection_rate, partial_fill_rate, cash_balance, positions,
                   order_counter, market_prices, applied, ibkrVars, built, bridgeVars>>

Disconnect ==
    /\ connected' = FALSE
    /\ last' = Call("disconnect", 0, "None", "", 0)
    /\ UNCHANGED <<rejection_rate, partial_fill_rate, cash_balance, positions, orders,
                   client_order_map, order_counter, market_prices, applied, ibkrVars, built, bridgeVars>>

RejectedOrder_NoReason(id, request) == NewOrder(id, request, "REJECTED", None)

\* Order(..., status=OrderStatus.REJECTED, reject_reason="Mock rejection for testing")
RejectedOrder(id, request) ==
    NewOrder(id, request, "REJECTED", Some("Mock rejection for testing"))

SeenClientOrderId_Never(cid) == FALSE

\* request.client_order_id in self.client_order_map
SeenClientOrderId(cid) == cid \in DOMAIN client_order_map

PlaceOrder(request) ==
    LET cid == request.client_order_id
    IN  /\ UNCHANGED <<rejection_rate, partial_fill_rate, connected, market_prices, applied, ibkrVars, built, bridgeVars>>
        /\ IF ~IsConnected
           THEN /\ last' = Call("place_order", cid, "BrokerError", NotConnected, 0)
                /\ UNCHANGED <<cash_balance, positions, orders, client_order_map,
                               order_counter>>
           ELSE IF SeenClientOrderId(cid)
           THEN /\ last' = Call("place_order", cid, "None", "", client_order_map[cid])
                /\ UNCHANGED <<cash_balance, positions, orders, client_order_map,
                               order_counter>>
           ELSE /\ order_counter < CounterStart + MaxOrders
                /\ order_counter' = order_counter + 1
                /\ \E reject \in RateDraws(rejection_rate) :
                     IF reject
                     THEN /\ orders' = Put(orders, order_counter,
                                           RejectedOrder(order_counter, request))
                          /\ client_order_map' = Put(client_order_map, cid, order_counter)
                          /\ last' = Call("place_order", cid, "None", "", order_counter)
                          /\ UNCHANGED <<cash_balance, positions>>
                     ELSE \E out \in SimulateFill(NewOrder(order_counter, request, "NEW", None)) :
                            IF out.raised # "None"
                            THEN /\ last' = Call("place_order", cid, out.raised, "", 0)
                                 /\ UNCHANGED <<cash_balance, positions, orders,
                                                client_order_map>>
                            ELSE /\ orders' = Put(orders, order_counter, out.order)
                                 /\ client_order_map' = Put(client_order_map, cid, order_counter)
                                 /\ positions' = out.positions
                                 /\ cash_balance' = out.cash_balance
                                 /\ last' = Call("place_order", cid, "None", "", order_counter)

GetOrder_FillsOpen(id) ==
    /\ UNCHANGED <<rejection_rate, partial_fill_rate, connected, market_prices, applied, ibkrVars, built, bridgeVars,
                   client_order_map, order_counter>>
    /\ IF ~IsConnected
       THEN /\ last' = Call("get_order", id, "BrokerError", NotConnected, 0)
            /\ UNCHANGED <<cash_balance, positions, orders>>
       ELSE IF id \notin DOMAIN orders
       THEN /\ last' = Call("get_order", id, "BrokerError", NotFound, 0)
            /\ UNCHANGED <<cash_balance, positions, orders>>
       ELSE \E update \in BOOLEAN :
              IF orders[id].status \in {"NEW", "PARTIAL"} /\ update
              THEN \E out \in SimulateFill(orders[id]) :
                     IF out.raised # "None"
                     THEN /\ last' = Call("get_order", id, out.raised, "", 0)
                          /\ UNCHANGED <<cash_balance, positions, orders>>
                     ELSE /\ orders' = [orders EXCEPT ![id] = out.order]
                          /\ positions' = out.positions
                          /\ cash_balance' = out.cash_balance
                          /\ last' = Call("get_order", id, "None", "", id)
              ELSE /\ last' = Call("get_order", id, "None", "", id)
                   /\ UNCHANGED <<cash_balance, positions, orders>>

\* MockBroker.get_order
GetOrder(id) ==
    /\ UNCHANGED <<rejection_rate, partial_fill_rate, connected, market_prices, applied, ibkrVars, built, bridgeVars,
                   client_order_map, order_counter>>
    /\ IF ~IsConnected
       THEN /\ last' = Call("get_order", id, "BrokerError", NotConnected, 0)
            /\ UNCHANGED <<cash_balance, positions, orders>>
       ELSE IF id \notin DOMAIN orders
       THEN /\ last' = Call("get_order", id, "BrokerError", NotFound, 0)
            /\ UNCHANGED <<cash_balance, positions, orders>>
       ELSE \E update \in BOOLEAN :
              IF orders[id].status = "NEW" /\ update
              THEN \E out \in SimulateFill(orders[id]) :
                     IF out.raised # "None"
                     THEN /\ last' = Call("get_order", id, out.raised, "", 0)
                          /\ UNCHANGED <<cash_balance, positions, orders>>
                     ELSE /\ orders' = [orders EXCEPT ![id] = out.order]
                          /\ positions' = out.positions
                          /\ cash_balance' = out.cash_balance
                          /\ last' = Call("get_order", id, "None", "", id)
              ELSE /\ last' = Call("get_order", id, "None", "", id)
                   /\ UNCHANGED <<cash_balance, positions, orders>>

CancelledOrder_Untouched(order) == order

CancelledOrder_VoidFills(order) ==
    [order EXCEPT !.status = "CANCELLED", !.filled_qty = 0, !.fills = <<>>,
                  !.avg_fill_price = None]

\* order.status = OrderStatus.CANCELLED
CancelledOrder(order) == [order EXCEPT !.status = "CANCELLED"]

CancelOrder(id) ==
    /\ UNCHANGED <<rejection_rate, partial_fill_rate, connected, market_prices, applied, ibkrVars, built, bridgeVars,
                   client_order_map, order_counter, cash_balance, positions>>
    /\ IF ~IsConnected
       THEN /\ last' = Call("cancel_order", id, "BrokerError", NotConnected, 0)
            /\ UNCHANGED orders
       ELSE IF id \notin DOMAIN orders
       THEN /\ last' = Call("cancel_order", id, "BrokerError", NotFound, 0)
            /\ UNCHANGED orders
       ELSE IF IsTerminal(orders[id])
       THEN /\ last' = Call("cancel_order", id, "BrokerError", TerminalState, 0)
            /\ UNCHANGED orders
       ELSE /\ orders' = [orders EXCEPT ![id] = CancelledOrder(orders[id])]
            /\ last' = Call("cancel_order", id, "None", "", id)

GetPositions ==
    /\ last' = IF ~IsConnected
               THEN Call("get_positions", 0, "BrokerError", NotConnected, 0)
               ELSE Call("get_positions", 0, "None", "", 0)
    /\ UNCHANGED <<rejection_rate, partial_fill_rate, cash_balance, positions, orders,
                   client_order_map, connected, order_counter, market_prices, applied, ibkrVars, built, bridgeVars>>

GetAccountInfo ==
    /\ last' = IF ~IsConnected
               THEN Call("get_account_info", 0, "BrokerError", NotConnected, 0)
               ELSE Call("get_account_info", 0, "None", "", 0)
    /\ UNCHANGED <<rejection_rate, partial_fill_rate, cash_balance, positions, orders,
                   client_order_map, connected, order_counter, market_prices, applied, ibkrVars, built, bridgeVars>>

SetMarketPrice(symbol, price) ==
    /\ market_prices' = Put(market_prices, symbol, price)
    /\ last' = Call("set_market_price", 0, "None", "", 0)
    /\ UNCHANGED <<rejection_rate, partial_fill_rate, cash_balance, positions, orders,
                   client_order_map, connected, order_counter, applied, ibkrVars, built, bridgeVars>>

ForcePrice_Reference(order, fill_price) ==
    Get(market_prices, order.request.symbol, DefaultPrice)

\* if fill_price is None: fill_price = self._market_prices.get(symbol, 100.0)
ForcePrice(order, fill_price) ==
    IF fill_price = None
    THEN Get(market_prices, order.request.symbol, DefaultPrice)
    ELSE fill_price[1]

ForceFillOrder(id, fill_price) ==
    /\ UNCHANGED <<rejection_rate, partial_fill_rate, connected, market_prices, applied, ibkrVars, built, bridgeVars,
                   client_order_map, order_counter>>
    /\ IF id \notin DOMAIN orders
       THEN /\ last' = Call("force_fill_order", id, "BrokerError", NotFound, 0)
            /\ UNCHANGED <<cash_balance, positions, orders>>
       ELSE IF IsTerminal(orders[id])
       THEN /\ last' = Call("force_fill_order", id, "None", "", 0)
            /\ UNCHANGED <<cash_balance, positions, orders>>
       ELSE LET order == orders[id]
                price == ForcePrice(order, fill_price)
                remaining_qty == RemainingQty(order)
            IN  /\ orders' = [orders EXCEPT
                                 ![id] = AddFill(order, [price |-> price, qty |-> remaining_qty])]
                /\ positions' = UpdatePosition(positions, market_prices, order.request.symbol,
                                               order.request.side, remaining_qty, price)
                /\ cash_balance' = UpdateCash(cash_balance, order.request.side,
                                              remaining_qty, price)
                /\ last' = Call("force_fill_order", id, "None", "", 0)

---------------------------------------------------------------------------
(* ibkr.py: IBKRBroker, with ib_insync installed.  The gateway is outside   *)
(* the repository: each call into it either returns or raises, and the      *)
(* status it reports for a placed order is any status string.               *)

ModOrderId == 1000000

\* hash(str) is any integer; these collide or not after % 1000000.
HashValues == {-999993, 7, 12}
IbClientIds == {1, 2}
IbRequests == {r \in Requests : r.qty = 1 /\ r.side = "BUY"}
VenueStatuses == {"Submitted", "PendingSubmit", "PreSubmitted", "Filled", "PartiallyFilled",
                  "Cancelled", "Inactive", "ApiCancelled", "PendingCancel"}
\* The ids place_order can assign, and one it never assigns.
IbOrderIds == {h % ModOrderId : h \in HashValues} \cup {999}

\* IBKRBroker._map_order_status
MapOrderStatus(ib_status) ==
    CASE ib_status = "Submitted" -> "NEW"
      [] ib_status = "PendingSubmit" -> "PENDING"
      [] ib_status = "PreSubmitted" -> "PENDING"
      [] ib_status = "Filled" -> "FILLED"
      [] ib_status = "PartiallyFilled" -> "PARTIAL"
      [] ib_status = "Cancelled" -> "CANCELLED"
      [] ib_status = "Inactive" -> "REJECTED"
      [] ib_status = "ApiCancelled" -> "CANCELLED"
      [] OTHER -> "NEW"

\* IBKRBroker._map_order_type: whether it returns an IB order (it raises otherwise).
SupportedOrderType(request) == request.order_type \in {"MARKET", "LIMIT"}

\* ib_order.orderId = hash(request.client_order_id) % 1000000
IbOrderId(cid) == hash_of[cid] % ModOrderId

\* IBKRBroker.is_connected
IbIsConnected == ib_connected /\ ib_session

IbCall(op, arg, raised, msg, ret, venue) ==
    [op |-> op, arg |-> arg, raised |-> raised, msg |-> msg, ret |-> ret, venue |-> venue,
     error_code |-> IF raised = "BrokerError" THEN RaisedErrorCode ELSE None]

IbNotConnected == "Not connected to IBKR Gateway"

\* IBKRBroker.__init__
InitIBKR ==
    /\ hash_of = [c \in IbClientIds |-> 7]
    /\ ib_connected = FALSE
    /\ ib_session = FALSE
    /\ ib_orders = EmptyMap
    /\ ib_last = IbCall("", 0, "None", "", 0, <<>>)

\* outcome: ib.connect raises, ib.managedAccounts raises, or neither does.
IbConnect(outcome) ==
    /\ UNCHANGED <<mockVars, applied, built, bridgeVars, hash_of, ib_orders>>
    /\ CASE outcome = "connect_raises" ->
              /\ ib_connected' = FALSE
              /\ UNCHANGED ib_session
              /\ ib_last' = IbCall("connect", 0, "BrokerError",
                                   "Failed to connect to IBKR Gateway", 0, <<"connect">>)
         [] outcome = "accounts_raises" ->
              /\ ib_session' = TRUE
              /\ ib_connected' = FALSE
              /\ ib_last' = IbCall("connect", 0, "BrokerError",
                                   "Failed to connect to IBKR Gateway", 0,
                                   <<"connect", "managedAccounts">>)
         [] OTHER ->
              /\ ib_session' = TRUE
              /\ ib_connected' = TRUE
              /\ ib_last' = IbCall("connect", 0, "None", "", 0,
                                   <<"connect", "managedAccounts">>)

IbDisconnect(venue_ok) ==
    /\ UNCHANGED <<mockVars, applied, built, bridgeVars, hash_of, ib_orders>>
    /\ IF ~ib_connected
       THEN /\ ib_last' = IbCall("disconnect", 0, "None", "", 0, <<>>)
            /\ UNCHANGED <<ib_connected, ib_session>>
       ELSE IF venue_ok
       THEN /\ ib_session' = FALSE
            /\ ib_connected' = FALSE
            /\ ib_last' = IbCall("disconnect", 0, "None", "", 0, <<"disconnect">>)
       ELSE /\ UNCHANGED <<ib_connected, ib_session>>
            /\ ib_last' = IbCall("disconnect", 0, "BrokerError",
                                 "Failed to disconnect from IBKR Gateway", 0, <<"disconnect">>)

\* The gateway or the network drops the session.
SessionLost ==
    /\ ib_session
    /\ ib_session' = FALSE
    /\ ib_last' = IbCall("session_lost", 0, "None", "", 0, <<>>)
    /\ UNCHANGED <<mockVars, applied, built, bridgeVars, hash_of, ib_connected, ib_orders>>

\* venue: the status string of the trade ib.placeOrder returns, or "raises".
IbPlaceOrder(request, venue) ==
    LET cid == request.client_order_id
        id == IbOrderId(cid)
    IN  /\ UNCHANGED <<mockVars, applied, built, bridgeVars, hash_of, ib_connected, ib_session>>
        /\ IF ~IbIsConnected
           THEN /\ ib_last' = IbCall("place_order", cid, "BrokerError", IbNotConnected, 0, <<>>)
                /\ UNCHANGED ib_orders
           ELSE IF ~SupportedOrderType(request)
           THEN /\ ib_last' = IbCall("place_order", cid, "BrokerError",
                                     "Failed to place order", 0, <<>>)
                /\ UNCHANGED ib_orders
           ELSE IF venue = "raises"
           THEN /\ ib_last' = IbCall("place_order", cid, "BrokerError",
                                     "Failed to place order", 0, <<"placeOrder">>)
                /\ UNCHANGED ib_orders
           ELSE /\ ib_orders' = Put(ib_orders, id,
                                    NewOrder(id, request, MapOrderStatus(venue), None))
                /\ ib_last' = IbCall("place_order", cid, "None", "", id, <<"placeOrder">>)

IbGetOrder(id) ==
    /\ UNCHANGED <<mockVars, applied, built, bridgeVars, hash_of, ib_connected, ib_session, ib_orders>>
    /\ ib_last' = IF id \in DOMAIN ib_orders
                  THEN IbCall("get_order", id, "None", "", id, <<>>)
                  ELSE IbCall("get_order", id, "BrokerError", "Order not found", 0, <<>>)

IbCancelOrder_StatusFirst(id, venue_ok) ==
    /\ UNCHANGED <<mockVars, applied, built, bridgeVars, hash_of, ib_connected, ib_session>>
    /\ IF ~IbIsConnected
       THEN /\ ib_last' = IbCall("cancel_order", id, "BrokerError", IbNotConnected, 0, <<>>)
            /\ UNCHANGED ib_orders
       ELSE IF id \notin DOMAIN ib_orders
       THEN /\ ib_last' = IbCall("cancel_order", id, "BrokerError",
                                 "Failed to cancel order", 0, <<>>)
            /\ UNCHANGED ib_orders
       ELSE IF ~venue_ok
       THEN /\ ib_last' = IbCall("cancel_order", id, "BrokerError",
                                 "Failed to cancel order", 0, <<"cancelOrder">>)
            /\ ib_orders' = [ib_orders EXCEPT ![id] = CancelledOrder(ib_orders[id])]
       ELSE /\ ib_orders' = [ib_orders EXCEPT ![id] = CancelledOrder(ib_orders[id])]
            /\ ib_last' = IbCall("cancel_order", id, "None", "", id, <<"cancelOrder">>)

\* IBKRBroker.cancel_order
IbCancelOrder(id, venue_ok) ==
    /\ UNCHANGED <<mockVars, applied, built, bridgeVars, hash_of, ib_connected, ib_session>>
    /\ IF ~IbIsConnected
       THEN /\ ib_last' = IbCall("cancel_order", id, "BrokerError", IbNotConnected, 0, <<>>)
            /\ UNCHANGED ib_orders
       ELSE IF id \notin DOMAIN ib_orders
       THEN /\ ib_last' = IbCall("cancel_order", id, "BrokerError",
                                 "Failed to cancel order", 0, <<>>)
            /\ UNCHANGED ib_orders
       ELSE IF ~venue_ok
       THEN /\ ib_last' = IbCall("cancel_order", id, "BrokerError",
                                 "Failed to cancel order", 0, <<"cancelOrder">>)
            /\ UNCHANGED ib_orders
       ELSE /\ ib_orders' = [ib_orders EXCEPT ![id] = CancelledOrder(ib_orders[id])]
            /\ ib_last' = IbCall("cancel_order", id, "None", "", id, <<"cancelOrder">>)

IbGetPositions(venue_ok) ==
    /\ UNCHANGED <<mockVars, applied, built, bridgeVars, hash_of, ib_connected, ib_session, ib_orders>>
    /\ ib_last' = IF ~IbIsConnected
                  THEN IbCall("get_positions", 0, "BrokerError", IbNotConnected, 0, <<>>)
                  ELSE IF ~venue_ok
                  THEN IbCall("get_positions", 0, "BrokerError", "Failed to get positions",
                              0, <<"positions">>)
                  ELSE IbCall("get_positions", 0, "None", "", 0, <<"positions">>)

IbGetAccountInfo(venue_ok) ==
    /\ UNCHANGED <<mockVars, applied, built, bridgeVars, hash_of, ib_connected, ib_session, ib_orders>>
    /\ ib_last' = IF ~IbIsConnected
                  THEN IbCall("get_account_info", 0, "BrokerError", IbNotConnected, 0, <<>>)
                  ELSE IF ~venue_ok
                  THEN IbCall("get_account_info", 0, "BrokerError",
                              "Failed to get account info", 0, <<"accountSummary">>)
                  ELSE IbCall("get_account_info", 0, "None", "", 0,
                              <<"accountSummary", "managedAccounts">>)

---------------------------------------------------------------------------
(* base.py: OrderRequest(...) under any field values *)

CandidateQtys == {0 - 1, 0, 1, 2}

\* The field values a caller may pass to OrderRequest(...).
CandidateFields ==
    [client_order_id : ClientIds, symbol : Symbols, qty : CandidateQtys, side : Sides,
     order_type : OrderTypes,
     limit_price : {None} \cup {Some(p) : p \in {0} \cup LimitPrices},
     stop_price : {None} \cup {Some(p) : p \in StopPrices}]

NotBuilt == [fields |-> None, raised |-> ""]

\* OrderRequest(...): the dataclass __init__, then __post_init__.
Construct(fields) ==
    /\ built' = [fields |-> fields,
                 raised |-> IF ValidRequest(fields) THEN "None" ELSE "ValueError"]
    /\ UNCHANGED <<mockVars, applied, ibkrVars, bridgeVars>>

---------------------------------------------------------------------------
(* scripts/get_market_data.py: the worker thread around IBKRBroker *)

QuoteSymbols == {"AAPL", "MSFT"}

\* --symbols: a comma-separated list, never empty
SymbolLists == UNION {[1..n -> QuoteSymbols] : n \in 1..MaxSymbols}

RunsOn_Caller == "caller"

\* threading.Thread(target=run_ibkr_in_thread, ...): the thread that runs the
\* body of run_ibkr_in_thread.
RunsOn == "worker"

\* One call on the IBKRBroker of run_ibkr_in_thread: phase is "start" when a
\* gateway call begins, "returned" or "raised" when a call ends.
BrokerCall(call, arg, phase) ==
    [thread |-> RunsOn, call |-> call, arg |-> arg, phase |-> phase]

Outcome(ok) == IF ok THEN "returned" ELSE "raised"

SymbolAt_Reversed(list, i) == list[Len(list) + 1 - i]

\* for symbol in symbols: the symbol of the i-th round
SymbolAt(list, i) == list[i]

QueuePut_Lost(q, message) == q

\* queue.Queue.put on an unbounded queue
QueuePut(q, message) == Append(q, message)

\* str(e) of the exception caught at the end of run_ibkr_in_thread: the
\* message of the broker call that raised.
ErrorMessage == broker_calls[Len(broker_calls)].call

PythonException(msg) == Some([type |-> "Exception", msg |-> msg])

\* Before get_market_data_main reaches the IBKR attempt.
InitBridge ==
    /\ built = NotBuilt
    /\ symbols = <<>>
    /\ caller_pc = "init"
    /\ thread_pc = "unstarted"
    /\ quote_index = 1
    /\ thread_results = EmptyMap
    /\ result_queue = <<>>
    /\ broker_calls = <<>>
    /\ ibkr_quotes = None
    /\ ibkr_error = None
    /\ data_source = ""
    /\ queued_at_join = None

\* broker = IBKRBroker(...): raises BrokerError when ib_insync is missing
ThreadConstruct(ok) ==
    /\ thread_pc = "construct"
    /\ broker_calls' = Append(broker_calls, BrokerCall("IBKRBroker", "", Outcome(ok)))
    /\ thread_pc' = IF ok THEN "connect" ELSE "put_error"
    /\ UNCHANGED <<mockVars, applied, ibkrVars, built, symbols, callerVars,
                   quote_index, thread_results, result_queue>>

\* broker.connect() is entered
ThreadConnectStart ==
    /\ thread_pc = "connect"
    /\ broker_calls' = Append(broker_calls, BrokerCall("connect", "", "start"))
    /\ thread_pc' = "connecting"
    /\ UNCHANGED <<mockVars, applied, ibkrVars, built, symbols, callerVars,
                   quote_index, thread_results, result_queue>>

\* broker.connect() returns, or raises BrokerError; thread_results = {}
ThreadConnectEnd(ok) ==
    /\ thread_pc = "connecting"
    /\ broker_calls' = Append(broker_calls, BrokerCall("connect", "", Outcome(ok)))
    /\ thread_pc' = IF ok THEN "loop" ELSE "put_error"
    /\ quote_index' = 1
    /\ thread_results' = EmptyMap
    /\ UNCHANGED <<mockVars, applied, ibkrVars, built, symbols, callerVars, result_queue>>

\* for symbol in symbols: broker.get_quote(symbol) is entered
ThreadQuoteStart ==
    /\ thread_pc = "loop"
    /\ quote_index <= Len(symbols)
    /\ broker_calls' = Append(broker_calls,
                              BrokerCall("get_quote", SymbolAt(symbols, quote_index), "start"))
    /\ thread_pc' = "quoting"
    /\ UNCHANGED <<mockVars, applied, ibkrVars, built, symbols, callerVars,
                   quote_index, thread_results, result_queue>>

ThreadQuoteEnd_Uncaught(ok) ==
    /\ thread_pc = "quoting"
    /\ LET symbol == SymbolAt(symbols, quote_index)
       IN  /\ broker_calls' = Append(broker_calls, BrokerCall("get_quote", symbol, Outcome(ok)))
           /\ thread_results' = IF ok THEN Put(thread_results, symbol, "quote")
                                ELSE thread_results
    /\ quote_index' = quote_index + 1
    /\ thread_pc' = IF ok THEN "loop" ELSE "put_error"
    /\ UNCHANGED <<mockVars, applied, ibkrVars, built, symbols, callerVars, result_queue>>

\* broker.get_quote(symbol) returns a quote, or raises and the loop stores
\* {'error': str(e)} for the symbol; then the next round.
ThreadQuoteEnd(ok) ==
    /\ thread_pc = "quoting"
    /\ LET symbol == SymbolAt(symbols, quote_index)
       IN  /\ broker_calls' = Append(broker_calls, BrokerCall("get_quote", symbol, Outcome(ok)))
           /\ thread_results' = Put(thread_results, symbol, IF ok THEN "quote" ELSE "error")
    /\ quote_index' = quote_index + 1
    /\ thread_pc' = "loop"
    /\ UNCHANGED <<mockVars, applied, ibkrVars, built, symbols, callerVars, result_queue>>

\* the loop is over: broker.disconnect() is entered
ThreadDisconnectStart ==
    /\ thread_pc = "loop"
    /\ quote_index > Len(symbols)
    /\ broker_calls' = Append(broker_calls, BrokerCall("disconnect", "", "start"))
    /\ thread_pc' = "disconnecting"
    /\ UNCHANGED <<mockVars, applied, ibkrVars, built, symbols, callerVars,
                   quote_index, thread_results, result_queue>>

\* broker.disconnect() returns, or raises BrokerError
ThreadDisconnectEnd(ok) ==
    /\ thread_pc = "disconnecting"
    /\ broker_calls' = Append(broker_calls, BrokerCall("disconnect", "", Outcome(ok)))
    /\ thread_pc' = IF ok THEN "put_success" ELSE "put_error"
    /\ UNCHANGED <<mockVars, applied, ibkrVars, built, symbols, callerVars,
                   quote_index, thread_results, result_queue>>

\* result_queue.put(('success', thread_results))
ThreadPutSuccess ==
    /\ thread_pc = "put_success"
    /\ result_queue' = QueuePut(result_queue,
                                [status |-> "success", results |-> thread_results,
                                 message |-> ""])
    /\ thread_pc' = "returning"
    /\ UNCHANGED <<mockVars, applied, ibkrVars, built, symbols, callerVars,
                   quote_index, thread_results, broker_calls>>

\* except Exception as e: result_queue.put(('error', str(e)))
ThreadPutError ==
    /\ thread_pc = "put_error"
    /\ result_queue' = QueuePut(result_queue,
                                [status |-> "error", results |-> EmptyMap,
                                 message |-> ErrorMessage])
    /\ thread_pc' = "returning"
    /\ UNCHANGED <<mockVars, applied, ibkrVars, built, symbols, callerVars,
                   quote_index, thread_results, broker_calls>>

\* run_ibkr_in_thread has returned and the thread ends: is_alive() turns false
ThreadExit ==
    /\ thread_pc = "returning"
    /\ thread_pc' = "done"
    /\ UNCHANGED <<mockVars, applied, ibkrVars, built, symbols, callerVars,
                   quote_index, thread_results, result_queue, broker_calls>>

ThreadNext ==
    \/ \E ok \in BOOLEAN : ThreadConstruct(ok)
    \/ ThreadConnectStart
    \/ \E ok \in BOOLEAN : ThreadConnectEnd(ok)
    \/ ThreadQuoteStart
    \/ \E ok \in BOOLEAN : ThreadQuoteEnd(ok)
    \/ ThreadDisconnectStart
    \/ \E ok \in BOOLEAN : ThreadDisconnectEnd(ok)
    \/ ThreadPutSuccess
    \/ ThreadPutError
    \/ ThreadExit

---------------------------------------------------------------------------
(* scripts/get_market_data.py: get_market_data_main, the calling thread *)

\* result_queue = queue.Queue(); thread = threading.Thread(...); thread.start()
StartThread ==
    /\ caller_pc = "init"
    /\ thread_pc = "unstarted"
    /\ result_queue' = <<>>
    /\ thread_pc' = "construct"
    /\ caller_pc' = "join"
    /\ UNCHANGED <<mockVars, applied, ibkrVars, built, symbols, ibkr_quotes, ibkr_error,
                   data_source, queued_at_join, quote_index, thread_results, broker_calls>>

\* thread.join(timeout=15) returns: the thread has ended, or the time is up
JoinReturns ==
    /\ caller_pc = "join"
    /\ caller_pc' = "is_alive"
    /\ queued_at_join' = Some(Len(result_queue))
    /\ UNCHANGED <<mockVars, applied, ibkrVars, built, symbols, ibkr_quotes, ibkr_error,
                   data_source, threadVars, result_queue>>

IsAlive_StopsThread ==
    /\ caller_pc = "is_alive"
    /\ IF thread_pc # "done"
       THEN /\ ibkr_error' = PythonException("IBKR connection timeout")
            /\ caller_pc' = "fallback"
            /\ thread_pc' = "done"
       ELSE /\ caller_pc' = "get_nowait"
            /\ UNCHANGED <<ibkr_error, thread_pc>>
    /\ UNCHANGED <<mockVars, applied, ibkrVars, built, symbols, ibkr_quotes, data_source,
                   queued_at_join, quote_index, thread_results, broker_calls, result_queue>>

\* if thread.is_alive(): raise Exception("IBKR connection timeout")
IsAlive ==
    /\ caller_pc = "is_alive"
    /\ IF thread_pc # "done"
       THEN /\ ibkr_error' = PythonException("IBKR connection timeout")
            /\ caller_pc' = "fallback"
       ELSE /\ caller_pc' = "get_nowait"
            /\ UNCHANGED ibkr_error
    /\ UNCHANGED <<mockVars, applied, ibkrVars, built, symbols, ibkr_quotes, data_source,
                   queued_at_join, threadVars, result_queue>>

\* status, ibkr_quotes = result_queue.get_nowait(); an 'error' status and
\* queue.Empty are both raised again as Exception
GetNowait ==
    /\ caller_pc = "get_nowait"
    /\ IF result_queue = <<>>
       THEN /\ ibkr_error' = PythonException("No results from IBKR thread")
            /\ caller_pc' = "fallback"
            /\ UNCHANGED <<result_queue, ibkr_quotes>>
       ELSE /\ result_queue' = Tail(result_queue)
            /\ ibkr_quotes' = Some(Head(result_queue))
            /\ IF Head(result_queue).status = "error"
               THEN /\ ibkr_error' = PythonException(Head(result_queue).message)
                    /\ caller_pc' = "fallback"
               ELSE /\ caller_pc' = "respond"
                    /\ UNCHANGED ibkr_error
    /\ UNCHANGED <<mockVars, applied, ibkrVars, built, symbols, data_source, queued_at_join,
                   threadVars>>

\* ibkr_success = len(ibkr_results) > 0: some symbol came back with a quote
IbkrSuccess ==
    /\ caller_pc = "respond"
    /\ \E i \in 1..Len(symbols) :
          Get(ibkr_quotes[1].results, symbols[i], "error") = "quote"

\* except Exception as ibkr_error: the error is logged; then the response is
\* built from the IBKR results or from the database
Respond ==
    /\ caller_pc \in {"fallback", "respond"}
    /\ data_source' = IF IbkrSuccess THEN "ibkr_live" ELSE "database_fallback"
    /\ caller_pc' = "done"
    /\ UNCHANGED <<mockVars, applied, ibkrVars, built, symbols, ibkr_quotes, ibkr_error,
                   queued_at_join, threadVars, result_queue>>

CallerNext ==
    \/ StartThread
    \/ JoinReturns
    \/ IsAlive
    \/ GetNowait
    \/ Respond

---------------------------------------------------------------------------
(* The simulator: a MockBroker under any configuration and any caller *)

\* MockBroker.__init__, but for the two rates
InitMock ==
    /\ cash_balance = InitialCash
    /\ positions = EmptyMap
    /\ orders = EmptyMap
    /\ client_order_map = EmptyMap
    /\ connected = FALSE
    /\ order_counter = CounterStart
    /\ market_prices = [s \in {"AAPL"} |-> AaplPrice]
    /\ last = NoCall
    /\ applied = <<>>

Init ==
    /\ rejection_rate \in Rates
    /\ partial_fill_rate \in Rates
    /\ InitMock
    /\ InitIBKR
    /\ InitBridge

\* What callers send: any request under a new client_order_id, and the request
\* first sent under an accepted one (a retry).
Sent(requests) ==
    {r \in requests :
        r.client_order_id \in DOMAIN client_order_map
            => r = orders[client_order_map[r.client_order_id]].request}

\* One client and its order under every operation, order type and price move.
SoloRequests == {r \in Requests : r.client_order_id = 1}

Next ==
    \/ Connect
    \/ Disconnect
    \/ \E request \in Sent(SoloRequests) : PlaceOrder(request)
    \/ \E id \in OrderIds : GetOrder(id)
    \/ \E id \in OrderIds : CancelOrder(id)
    \/ GetPositions
    \/ GetAccountInfo
    \/ \E symbol \in Symbols, price \in SetPrices : SetMarketPrice(symbol, price)
    \/ \E id \in OrderIds, fill_price \in ForcePrices : ForceFillOrder(id, fill_price)

Spec == Init /\ [][Next]_vars

\* Two clients trading MARKET and LIMIT orders in one account, at a fixed
\* reference price.
BookRequests == {r \in Requests : r.order_type \in {"MARKET", "LIMIT"}}

NextBook ==
    \/ Connect
    \/ Disconnect
    \/ \E request \in Sent(BookRequests) : PlaceOrder(request)
    \/ \E id \in OrderIds : GetOrder(id)
    \/ \E id \in OrderIds : CancelOrder(id)
    \/ GetPositions
    \/ GetAccountInfo
    \/ \E id \in OrderIds : ForceFillOrder(id, None)

SpecBook == Init /\ [][NextBook]_vars

\* Two clients under rates at which every random draw can go either way.
InitAnyDraw ==
    /\ rejection_rate = 50
    /\ partial_fill_rate = 50
    /\ InitMock
    /\ InitIBKR
    /\ InitBridge

SpecBookAnyDraw == InitAnyDraw /\ [][NextBook]_vars

\* One client that retries its client_order_id with any request.
NextRetry ==
    \/ Connect
    \/ Disconnect
    \/ \E request \in SoloRequests : PlaceOrder(request)
    \/ \E id \in OrderIds : GetOrder(id)
    \/ \E id \in OrderIds : CancelOrder(id)
    \/ GetPositions
    \/ GetAccountInfo
    \/ \E symbol \in Symbols, price \in SetPrices : SetMarketPrice(symbol, price)
    \/ \E id \in OrderIds, fill_price \in ForcePrices : ForceFillOrder(id, fill_price)

SpecRetry == Init /\ [][NextRetry]_vars

---------------------------------------------------------------------------
(* The position book: _update_position under any sequence of fills *)

FillSymbols == {"AAPL", "XYZ"}
FillQtys == {10, 15}
FillPrices == {100, 120, 130}

Fill(symbol, side, qty, price) ==
    [symbol |-> symbol, side |-> side, qty |-> qty, price |-> price]

\* self._update_position(symbol, side, qty, price), as _simulate_fill and
\* force_fill_order call it after a fill.
ApplyFill(symbol, side, qty, price) ==
    /\ Len(applied) < MaxFills
    /\ positions' = UpdatePosition(positions, market_prices, symbol, side, qty, price)
    /\ applied' = Append(applied, Fill(symbol, side, qty, price))
    /\ UNCHANGED <<rejection_rate, partial_fill_rate, cash_balance, orders, client_order_map,
                   connected, order_counter, market_prices, last, ibkrVars, built, bridgeVars>>

InitPositions ==
    /\ rejection_rate = 0
    /\ partial_fill_rate = 0
    /\ InitMock
    /\ InitIBKR
    /\ InitBridge

NextPositions ==
    \E symbol \in FillSymbols, side \in Sides, qty \in FillQtys, price \in FillPrices :
        ApplyFill(symbol, side, qty, price)

SpecPositions == InitPositions /\ [][NextPositions]_vars

---------------------------------------------------------------------------
(* The IBKR adapter under any caller, gateway behaviour and string hash *)

InitIBKRSpec ==
    /\ rejection_rate = 0
    /\ partial_fill_rate = 0
    /\ InitMock
    /\ hash_of \in [IbClientIds -> HashValues]
    /\ ib_connected = FALSE
    /\ ib_session = FALSE
    /\ ib_orders = EmptyMap
    /\ ib_last = IbCall("", 0, "None", "", 0, <<>>)
    /\ InitBridge

NextIBKR ==
    \/ \E outcome \in {"ok", "connect_raises", "accounts_raises"} : IbConnect(outcome)
    \/ \E venue_ok \in BOOLEAN : IbDisconnect(venue_ok)
    \/ SessionLost
    \/ \E request \in IbRequests, venue \in VenueStatuses \cup {"raises"} :
          IbPlaceOrder(request, venue)
    \/ \E id \in IbOrderIds : IbGetOrder(id)
    \/ \E id \in IbOrderIds, venue_ok \in BOOLEAN : IbCancelOrder(id, venue_ok)
    \/ \E venue_ok \in BOOLEAN : IbGetPositions(venue_ok)
    \/ \E venue_ok \in BOOLEAN : IbGetAccountInfo(venue_ok)

SpecIBKR == InitIBKRSpec /\ [][NextIBKR]_vars

---------------------------------------------------------------------------
(* Idempotent placement *)

\* C1: a place_order call on a connected MockBroker whose client_order_id it
\* has already accepted returns the order of the first call, with the same
\* broker_order_id, and creates no order and no fill: orders, the id map, the
\* counter, positions and cash are unchanged, whatever the order's status.
C1_PlaceOrderIdempotent ==
    [][\A cid \in ClientIds :
          (/\ connected
           /\ cid \in DOMAIN client_order_map
           /\ last'.op = "place_order"
           /\ last'.arg = cid)
          => /\ last'.raised = "None"
             /\ last'.ret = client_order_map[cid]
             /\ orders' = orders
             /\ client_order_map' = client_order_map
             /\ order_counter' = order_counter
             /\ positions' = positions
             /\ cash_balance' = cash_balance]_vars

\* A repeated place_order has returned an order that was cancelled meanwhile.
C1_Witness ==
    /\ last.op = "place_order"
    /\ last.raised = "None"
    /\ last.arg \in DOMAIN client_order_map
    /\ last.ret = client_order_map[last.arg]
    /\ orders[last.ret].status = "CANCELLED"
    /\ orders[last.ret].filled_qty > 0

\* C2: a place_order call on a connected IBKRBroker whose client_order_id it
\* tracks returns the order of the first placement, leaves the tracked orders
\* as they are and does not call the gateway's placeOrder again.
C2_IbkrPlaceOrderIdempotent ==
    [][\A cid \in IbClientIds :
          (/\ IbIsConnected
           /\ \E id \in DOMAIN ib_orders : ib_orders[id].request.client_order_id = cid
           /\ ib_last'.op = "place_order"
           /\ ib_last'.arg = cid)
          => /\ ib_last'.raised = "None"
             /\ ib_last'.venue = <<>>
             /\ ib_last'.ret \in DOMAIN ib_orders
             /\ ib_orders[ib_last'.ret].request.client_order_id = cid
             /\ ib_orders' = ib_orders]_vars

---------------------------------------------------------------------------
(* Fills and terminal orders in the simulator *)

\* C3: in MockBroker the filled_qty of an order never decreases, and it is
\* always at least 0 and at most the requested quantity.
C3_FillMonotonic ==
    /\ [](\A id \in DOMAIN orders :
             0 <= orders[id].filled_qty /\ orders[id].filled_qty <= orders[id].request.qty)
    /\ [][\A id \in DOMAIN orders :
             id \in DOMAIN orders' /\ orders'[id].filled_qty >= orders[id].filled_qty]_vars

\* An order filled in part by the simulator and then to the full by force_fill_order.
C3_Witness ==
    \E id \in DOMAIN orders :
        /\ Len(orders[id].fills) = 2
        /\ orders[id].filled_qty = orders[id].request.qty
        /\ last.op = "force_fill_order"

\* C4: once a MockBroker order is FILLED, REJECTED, CANCELLED or EXPIRED, no
\* operation changes its status, its filled_qty or its fills.
C4_TerminalImmutable ==
    [][\A id \in DOMAIN orders :
          orders[id].status \in TerminalStatuses
          => /\ id \in DOMAIN orders'
             /\ orders'[id].status = orders[id].status
             /\ orders'[id].filled_qty = orders[id].filled_qty
             /\ orders'[id].fills = orders[id].fills]_vars

\* force_fill_order has been called on an order cancelled after a partial fill.
C4_Witness ==
    /\ last.op = "force_fill_order"
    /\ last.raised = "None"
    /\ last.arg \in DOMAIN orders
    /\ orders[last.arg].status = "CANCELLED"
    /\ orders[last.arg].filled_qty = 1
    /\ orders[last.arg].request.qty = 2

---------------------------------------------------------------------------
(* Cancellation *)

\* C5: cancel_order on a connected MockBroker for an order it knows raises the
\* invalid-state BrokerError and leaves every order as it is when the order is
\* terminal; otherwise it sets the order's status to CANCELLED and returns it.
C5_CancelOrder ==
    [][\A id \in OrderIds :
          (/\ connected
           /\ id \in DOMAIN orders
           /\ last'.op = "cancel_order"
           /\ last'.arg = id)
          => IF orders[id].status \in TerminalStatuses
             THEN /\ last'.raised = "BrokerError"
                  /\ last'.msg = TerminalState
                  /\ orders' = orders
             ELSE /\ last'.raised = "None"
                  /\ last'.ret = id
                  /\ orders'[id].status = "CANCELLED"]_vars

\* A second cancel_order of an order has been refused: the first one cancelled it.
C5_Witness ==
    /\ last.op = "cancel_order"
    /\ last.raised = "BrokerError"
    /\ last.msg = TerminalState
    /\ last.arg \in DOMAIN orders
    /\ orders[last.arg].status = "CANCELLED"

\* C6: cancel_order on an IBKRBroker for a tracked order in a terminal status
\* raises BrokerError and does not change the order's status.
C6_IbkrCancelTerminal ==
    [][\A id \in IbOrderIds :
          (/\ id \in DOMAIN ib_orders
           /\ ib_orders[id].status \in TerminalStatuses
           /\ ib_last'.op = "cancel_order"
           /\ ib_last'.arg = id)
          => /\ ib_last'.raised = "BrokerError"
             /\ id \in DOMAIN ib_orders'
             /\ ib_orders'[id].status = ib_orders[id].status]_vars

\* C7: cancel_order on a PARTIAL MockBroker order changes only the order's
\* status: its filled_qty, avg_fill_price and fills, the other orders,
\* positions and cash stay as they were.
C7_CancelPartialKeepsFills ==
    [][\A id \in OrderIds :
          (/\ connected
           /\ id \in DOMAIN orders
           /\ orders[id].status = "PARTIAL"
           /\ last'.op = "cancel_order"
           /\ last'.arg = id)
          => /\ orders' = [orders EXCEPT ![id].status = "CANCELLED"]
             /\ orders'[id].filled_qty = orders[id].filled_qty
             /\ orders'[id].avg_fill_price = orders[id].avg_fill_price
             /\ orders'[id].fills = orders[id].fills
             /\ positions' = positions
             /\ cash_balance' = cash_balance]_vars

\* A partially filled order has been cancelled: its fill and the position stand.
C7_Witness ==
    /\ last.op = "cancel_order"
    /\ last.raised = "None"
    /\ last.arg \in DOMAIN orders
    /\ orders[last.arg].status = "CANCELLED"
    /\ orders[last.arg].filled_qty = 1
    /\ Len(orders[last.arg].fills) = 1
    /\ orders[last.arg].avg_fill_price # None
    /\ orders[last.arg].request.symbol \in DOMAIN positions

---------------------------------------------------------------------------
(* Position accounting *)

\* C8: from no position in a symbol, a BUY fill of 10 at 100 gives qty 10 and
\* avg_cost 100; a further BUY fill of 10 at 120 gives qty 20 and avg_cost 110;
\* a SELL fill of 15 at 130 after these gives qty 5 and avg_cost 110.
C8_LongSideAccounting ==
    \A s \in FillSymbols :
        LET mine == SelectSeq(applied, LAMBDA f : f.symbol = s)
            buy1 == Fill(s, "BUY", 10, 100)
            buy2 == Fill(s, "BUY", 10, 120)
            sell3 == Fill(s, "SELL", 15, 130)
        IN  /\ mine = <<buy1>>
               => /\ s \in DOMAIN positions
                  /\ positions[s].qty = 10
                  /\ positions[s].avg_cost = RatInt(100)
            /\ mine = <<buy1, buy2>>
               => /\ s \in DOMAIN positions
                  /\ positions[s].qty = 20
                  /\ positions[s].avg_cost = RatInt(110)
            /\ mine = <<buy1, buy2, sell3>>
               => /\ s \in DOMAIN positions
                  /\ positions[s].qty = 5
                  /\ positions[s].avg_cost = RatInt(110)

\* The three fills have been applied to XYZ, leaving 5 at 110.
C8_Witness ==
    /\ applied = <<Fill("XYZ", "BUY", 10, 100), Fill("XYZ", "BUY", 10, 120),
                   Fill("XYZ", "SELL", 15, 130)>>
    /\ "XYZ" \in DOMAIN positions
    /\ positions["XYZ"].qty = 5
    /\ positions["XYZ"].avg_cost = RatInt(110)

\* C9: a fill that reduces the magnitude of a position without closing it, a
\* SELL against a long or a BUY covering part of a short, leaves the
\* position's avg_cost unchanged and moves its qty by the fill.
C9_ReductionKeepsAvgCost ==
    [][Len(applied') = Len(applied) + 1
       => LET f == applied'[Len(applied')]
              s == f.symbol
          IN  (/\ s \in DOMAIN positions
               /\ \/ f.side = "SELL" /\ positions[s].qty > 0 /\ f.qty < positions[s].qty
                  \/ f.side = "BUY" /\ positions[s].qty < 0 /\ f.qty < -positions[s].qty)
              => /\ s \in DOMAIN positions'
                 /\ positions'[s].avg_cost = positions[s].avg_cost
                 /\ positions'[s].qty =
                       IF f.side = "BUY" THEN positions[s].qty + f.qty
                       ELSE positions[s].qty - f.qty]_vars

\* C10: a fill that opens a position, or adds to a position in its direction,
\* a BUY adding to a long or a SELL adding to a short, sets avg_cost to
\* (|old_qty| * old_avg + fill_qty * fill_price) / |new_qty|.
C10_IncreaseBlendsAvgCost ==
    [][Len(applied') = Len(applied) + 1
       => LET f == applied'[Len(applied')]
              s == f.symbol
              old == Get(positions, s, [qty |-> 0, avg_cost |-> RatInt(0)])
          IN  (\/ s \notin DOMAIN positions
               \/ f.side = "BUY" /\ old.qty > 0
               \/ f.side = "SELL" /\ old.qty < 0)
              => /\ s \in DOMAIN positions'
                 /\ positions'[s].avg_cost =
                       Rat(Abs(old.qty) * old.avg_cost.num
                               + f.qty * f.price * old.avg_cost.den,
                           old.avg_cost.den * Abs(positions'[s].qty))]_vars

\* C11: MockBroker never stores a position of quantity zero: a fill in a
\* symbol without a position creates one, and a fill that brings the quantity
\* back to exactly zero removes the position.
C11_NoZeroPosition ==
    /\ [](\A s \in DOMAIN positions : positions[s].qty # 0)
    /\ [][Len(applied') = Len(applied) + 1
          => LET f == applied'[Len(applied')]
                 s == f.symbol
                 signed == IF f.side = "BUY" THEN f.qty ELSE -f.qty
                 held == IF s \in DOMAIN positions THEN positions[s].qty ELSE 0
             IN  /\ (s \in DOMAIN positions') = (held + signed # 0)
                 /\ s \in DOMAIN positions' => positions'[s].qty = held + signed]_vars

\* A position of 10 has been opened by a first fill and removed by a fill of 10
\* the other way.
C11_Witness ==
    /\ applied = <<Fill("XYZ", "BUY", 10, 100), Fill("XYZ", "SELL", 10, 120)>>
    /\ "XYZ" \notin DOMAIN positions

---------------------------------------------------------------------------
(* Cash *)

\* The value of the fills of the orders ids: SELL fills count positive, BUY
\* fills negative.
RECURSIVE NetFillValue(_)
NetFillValue(ids) ==
    IF ids = {} THEN 0
    ELSE LET id == CHOOSE x \in ids : TRUE
             value == SumValue(orders[id].fills)
         IN  (IF orders[id].request.side = "BUY" THEN -value ELSE value)
             + NetFillValue(ids \ {id})

\* C12: every fill lowers cash_balance by qty * price for a BUY order and
\* raises it by qty * price for a SELL order: cash_balance is always
\* initial_cash minus the value of all BUY fills plus the value of all SELL fills.
C12_CashAccounting ==
    cash_balance = InitialCash + NetFillValue(DOMAIN orders)

\* A SELL order filled in two fills, by the simulator and by force_fill_order,
\* has raised the cash.
C12_Witness ==
    \E id \in DOMAIN orders :
        /\ orders[id].request.side = "SELL"
        /\ Len(orders[id].fills) = 2
        /\ cash_balance > InitialCash

---------------------------------------------------------------------------
(* Limit orders *)

\* C13: a BUY LIMIT order whose limit_price is below every market price the
\* simulator can draw is NEW with no fill when place_order accepts it, and no
\* place_order or get_order call changes that: it stays NEW with filled_qty 0.
C13_NonMarketableLimitStaysNew ==
    [][\A id \in DOMAIN orders' :
          LET request == orders'[id].request
          IN  (/\ last'.op \in {"place_order", "get_order"}
               /\ request.order_type = "LIMIT"
               /\ request.side = "BUY"
               /\ \A market_price \in
                        MarketPriceDraws(Get(market_prices, request.symbol, DefaultPrice)) :
                     request.limit_price[1] < market_price
               /\ IF id \in DOMAIN orders THEN orders[id].status = "NEW"
                  ELSE orders'[id].status # "REJECTED")
              => /\ orders'[id].status = "NEW"
                 /\ orders'[id].filled_qty = 0
                 /\ orders'[id].fills = <<>>]_vars

\* get_order has returned a BUY LIMIT order at 90, still NEW, while the
\* reference price of its symbol is the default 100.
C13_Witness ==
    /\ last.op = "get_order"
    /\ last.raised = "None"
    /\ last.arg \in DOMAIN orders
    /\ orders[last.arg].request.order_type = "LIMIT"
    /\ orders[last.arg].request.side = "BUY"
    /\ orders[last.arg].request.limit_price = Some(90)
    /\ orders[last.arg].request.symbol \notin DOMAIN market_prices
    /\ orders[last.arg].status = "NEW"
    /\ orders[last.arg].filled_qty = 0

\* C14: a fill that place_order or get_order generates for a LIMIT order is at
\* a market price drawn for it against which the order is marketable, and its
\* price is at most limit_price for a BUY and at least limit_price for a SELL.
C14_LimitFillWithinLimit ==
    [][\A id \in DOMAIN orders' :
          LET order == orders'[id]
              request == order.request
              before == IF id \in DOMAIN orders THEN Len(orders[id].fills) ELSE 0
          IN  (/\ last'.op \in {"place_order", "get_order"}
               /\ request.order_type = "LIMIT"
               /\ Len(order.fills) > before)
              => LET fill == order.fills[Len(order.fills)]
                 IN  /\ Len(order.fills) = before + 1
                     /\ fill.price \in
                          MarketPriceDraws(Get(market_prices, request.symbol, DefaultPrice))
                     /\ request.side = "BUY" => fill.price <= request.limit_price[1]
                     /\ request.side = "SELL" => fill.price >= request.limit_price[1]]_vars

\* get_order has filled a BUY LIMIT order at 90 below its limit, at 89.
C14_Witness ==
    /\ last.op = "get_order"
    /\ last.arg \in DOMAIN orders
    /\ orders[last.arg].request.order_type = "LIMIT"
    /\ orders[last.arg].request.side = "BUY"
    /\ orders[last.arg].fills # <<>>
    /\ orders[last.arg].fills[1].price = 89

---------------------------------------------------------------------------
(* One Order under any sequence of add_fill calls *)

OrderFillPrices == {10, 20}
OrderFillQtys == {1, 2}
FilledRequests ==
    {[r EXCEPT !.qty = qty] :
        r \in {x \in SoloRequests : x.order_type = "MARKET"}, qty \in {2, 4}}

\* order.add_fill(OrderFill(price, qty)) on the order orders[id]
AddFillCall(id, price, qty) ==
    /\ Len(orders[id].fills) < MaxFills
    /\ orders' = [orders EXCEPT ![id] = AddFill(orders[id], [price |-> price, qty |-> qty])]
    /\ UNCHANGED <<rejection_rate, partial_fill_rate, cash_balance, positions,
                   client_order_map, connected, order_counter, market_prices, last,
                   applied, ibkrVars, built, bridgeVars>>

\* One Order, as its constructor leaves it.
InitFills ==
    /\ rejection_rate = 0
    /\ partial_fill_rate = 0
    /\ cash_balance = InitialCash
    /\ positions = EmptyMap
    /\ \E request \in FilledRequests :
          orders = Put(EmptyMap, CounterStart, NewOrder(CounterStart, request, "NEW", None))
    /\ client_order_map = EmptyMap
    /\ connected = FALSE
    /\ order_counter = CounterStart
    /\ market_prices = [s \in {"AAPL"} |-> AaplPrice]
    /\ last = NoCall
    /\ applied = <<>>
    /\ InitIBKR
    /\ InitBridge

NextFills ==
    \E id \in DOMAIN orders, price \in OrderFillPrices, qty \in OrderFillQtys :
        AddFillCall(id, price, qty)

SpecFills == InitFills /\ [][NextFills]_vars

RECURSIVE FillsQty(_)
FillsQty(fills) == IF fills = <<>> THEN 0 ELSE Head(fills).qty + FillsQty(Tail(fills))

\* C15: avg_fill_price is null while an order has no fill, and after every
\* add_fill it is sum(price * qty) / sum(qty) over the order's fills; fills of
\* 2 at 10 and then 2 at 20 give 15.
C15_AvgFillPrice ==
    \A id \in DOMAIN orders :
        LET fills == orders[id].fills
        IN  /\ fills = <<>> => orders[id].avg_fill_price = None
            /\ fills # <<>>
               => orders[id].avg_fill_price = Some(Rat(SumValue(fills), FillsQty(fills)))
            /\ fills = <<[price |-> 10, qty |-> 2], [price |-> 20, qty |-> 2]>>
               => orders[id].avg_fill_price = Some(RatInt(15))

\* The two fills of the example have been applied to an order of 4.
C15_Witness ==
    \E id \in DOMAIN orders :
        /\ orders[id].fills = <<[price |-> 10, qty |-> 2], [price |-> 20, qty |-> 2]>>
        /\ orders[id].request.qty = 4
        /\ orders[id].status = "FILLED"
        /\ orders[id].avg_fill_price = Some(RatInt(15))

---------------------------------------------------------------------------
(* Connection *)

\* C16: while MockBroker is not connected, each of place_order, get_order,
\* cancel_order, get_positions and get_account_info raises the not-connected
\* BrokerError and leaves orders, client_order_map, positions, cash_balance
\* and the order id counter unchanged.
C16_MockRequiresConnection ==
    [][(/\ ~connected
        /\ last'.op \in {"place_order", "get_order", "cancel_order",
                         "get_positions", "get_account_info"})
       => /\ last'.raised = "BrokerError"
          /\ last'.msg = NotConnected
          /\ orders' = orders
          /\ client_order_map' = client_order_map
          /\ positions' = positions
          /\ cash_balance' = cash_balance
          /\ order_counter' = order_counter]_vars

\* cancel_order has been refused after a disconnect, with a NEW order on the books.
C16_Witness ==
    /\ ~connected
    /\ last.op = "cancel_order"
    /\ last.raised = "BrokerError"
    /\ last.msg = NotConnected
    /\ last.arg \in DOMAIN orders
    /\ orders[last.arg].status = "NEW"

\* C17: while IBKRBroker is not connected, each of place_order, get_order,
\* cancel_order, get_positions and get_account_info raises BrokerError instead
\* of returning a value.
C17_IbkrRequiresConnection ==
    [][(/\ ~IbIsConnected
        /\ ib_last'.op \in {"place_order", "get_order", "cancel_order",
                            "get_positions", "get_account_info"})
       => ib_last'.raised = "BrokerError"]_vars

---------------------------------------------------------------------------
(* Lookups *)

\* C18: on a connected MockBroker, get_order and cancel_order for an id it
\* does not know raise the not-found BrokerError and change no state, and
\* get_order for an id it knows returns the order stored under that id.
C18_MockOrderLookup ==
    [][\A id \in OrderIds :
          (connected /\ last'.arg = id)
          => /\ (id \notin DOMAIN orders /\ last'.op \in {"get_order", "cancel_order"})
                => /\ last'.raised = "BrokerError"
                   /\ last'.msg = NotFound
                   /\ UNCHANGED <<cash_balance, positions, orders, client_order_map,
                                  order_counter, market_prices>>
             /\ (id \in DOMAIN orders /\ last'.op = "get_order")
                => /\ last'.raised = "None"
                   /\ last'.ret = id
                   /\ id \in DOMAIN orders']_vars

---------------------------------------------------------------------------
(* Errors *)

\* C19: every BrokerError an adapter operation raises carries an error_code
\* that is not null.
C19_ErrorCodePresent ==
    last.raised = "BrokerError" => last.error_code # None

\* C20: a MockBroker operation returns normally or raises BrokerError, never
\* an exception of another type.
C20_OnlyBrokerError ==
    last.raised \in {"None", "BrokerError"}

---------------------------------------------------------------------------
(* Order life cycle *)

---------------------------------------------------------------------------
(* OrderRequest construction under any caller *)

InitRequests ==
    /\ rejection_rate = 0
    /\ partial_fill_rate = 0
    /\ InitMock
    /\ InitIBKR
    /\ InitBridge

NextRequests == \E fields \in CandidateFields : Construct(fields)

SpecRequests == InitRequests /\ [][NextRequests]_vars

---------------------------------------------------------------------------
(* One run of get_market_data_main: the calling thread and its worker *)

InitMarketData ==
    /\ rejection_rate = 0
    /\ partial_fill_rate = 0
    /\ InitMock
    /\ InitIBKR
    /\ built = NotBuilt
    /\ symbols \in SymbolLists
    /\ caller_pc = "init"
    /\ thread_pc = "unstarted"
    /\ quote_index = 1
    /\ thread_results = EmptyMap
    /\ result_queue = <<>>
    /\ broker_calls = <<>>
    /\ ibkr_quotes = None
    /\ ibkr_error = None
    /\ data_source = ""
    /\ queued_at_join = None

NextMarketData == CallerNext \/ ThreadNext

SpecMarketData == InitMarketData /\ [][NextMarketData]_vars

\* The worker thread is scheduled, and every gateway call it makes comes back.
SpecMarketDataFair == SpecMarketData /\ WF_vars(ThreadNext)


\* C21: every status change of a stored MockBroker order moves forward along
\* NEW, PENDING, PARTIAL, FILLED, or goes from a status that is not terminal
\* to REJECTED, CANCELLED or EXPIRED; no status change leaves a terminal status.
C21_StatusStateMachine ==
    [][\A id \in DOMAIN orders :
          LET chain == <<"NEW", "PENDING", "PARTIAL", "FILLED">>
              old == orders[id].status
              new == orders'[id].status
          IN  (id \in DOMAIN orders' /\ new # old)
              => /\ old \notin TerminalStatuses
                 /\ \/ new \in {"REJECTED", "CANCELLED", "EXPIRED"}
                    \/ \E i, j \in 1..4 : chain[i] = old /\ chain[j] = new /\ i < j]_vars

\* A LIMIT order has gone to FILLED in two fills, the second by force_fill_order.
C21_Witness ==
    /\ last.op = "force_fill_order"
    /\ last.arg \in DOMAIN orders
    /\ orders[last.arg].request.order_type = "LIMIT"
    /\ orders[last.arg].status = "FILLED"
    /\ Len(orders[last.arg].fills) = 2

\* C22: a broker_order_id in the order map stays there through every later
\* operation, disconnect and reconnect included, with the request it was
\* stored with, and a client_order_id keeps its broker_order_id, also when
\* place_order is called again under it with another request.
C22_OrdersNeverReplaced ==
    [][/\ \A id \in DOMAIN orders :
             /\ id \in DOMAIN orders'
             /\ orders'[id].request = orders[id].request
             /\ orders'[id].broker_order_id = orders[id].broker_order_id
       /\ \A cid \in DOMAIN client_order_map :
             /\ cid \in DOMAIN client_order_map'
             /\ client_order_map'[cid] = client_order_map[cid]]_vars

\* place_order under the client_order_id of a cancelled order has returned
\* that order, and no second order was created.
C22_Witness ==
    /\ connected
    /\ last.op = "place_order"
    /\ last.raised = "None"
    /\ last.ret \in DOMAIN orders
    /\ orders[last.ret].status = "CANCELLED"
    /\ orders[last.ret].request.client_order_id = last.arg
    /\ order_counter = CounterStart + 1

---------------------------------------------------------------------------
(* Request validation *)

\* C23: OrderRequest(...) raises ValueError exactly when qty <= 0, or the
\* order type is LIMIT or STOP_LIMIT and limit_price is missing, or the order
\* type is STOP or STOP_LIMIT and stop_price is missing; every other
\* combination of fields constructs.
C23_ConstructionValidation ==
    built.raised # ""
    => /\ built.raised \in {"None", "ValueError"}
       /\ (built.raised = "ValueError")
          = (\/ built.fields.qty <= 0
             \/ /\ built.fields.order_type \in {"LIMIT", "STOP_LIMIT"}
                /\ built.fields.limit_price = None
             \/ /\ built.fields.order_type \in {"STOP", "STOP_LIMIT"}
                /\ built.fields.stop_price = None)

\* A STOP_LIMIT request with a limit_price and no stop_price has been refused.
C23_Witness ==
    /\ built.raised = "ValueError"
    /\ built.fields.order_type = "STOP_LIMIT"
    /\ built.fields.limit_price # None
    /\ built.fields.stop_price = None
    /\ built.fields.qty = 2

---------------------------------------------------------------------------
(* The worker thread of get_market_data_main *)

Called(call, phase) ==
    \E i \in 1..Len(broker_calls) :
        broker_calls[i].call = call /\ broker_calls[i].phase = phase

QuoteCalls == SelectSeq(broker_calls, LAMBDA c : c.call = "get_quote")

\* The messages the worker has put: those waiting and the one taken.
MessagesPut == Len(result_queue) + Len(ibkr_quotes)

TimeoutReported ==
    /\ ibkr_error # None
    /\ ibkr_error[1].msg = "IBKR connection timeout"

\* C24: when the worker thread has not ended by the time the caller's wait is
\* over, the exception the caller gets for the timeout is a BrokerError.
C24_TimeoutIsBrokerError ==
    TimeoutReported => ibkr_error[1].type = "BrokerError"

\* C25: the caller's steps, its report of a timeout among them, leave the
\* worker thread where it stands and take nothing from what it has done; a
\* worker that has not ended when the timeout is reported can still take its
\* next step.
C25_TimeoutEndsOnlyTheWait ==
    /\ [][caller_pc' # caller_pc /\ caller_pc # "init"
          => /\ UNCHANGED threadVars
             /\ caller_pc # "get_nowait" => UNCHANGED result_queue]_vars
    /\ [](TimeoutReported /\ thread_pc # "done" => ENABLED ThreadNext)

\* The caller reported a timeout and has answered from the database; the
\* worker has since got a quote, disconnected and put its result, which waits
\* on the queue.
C25_Witness ==
    /\ TimeoutReported
    /\ caller_pc = "done"
    /\ data_source = "database_fallback"
    /\ thread_pc = "done"
    /\ Called("get_quote", "returned")
    /\ Called("disconnect", "returned")
    /\ Len(result_queue) = 1
    /\ result_queue[1].status = "success"

\* C26: every call on the IBKRBroker, its construction included, is made by
\* the worker thread; no step of the caller makes one, and what the caller
\* holds of the results is the message it took from the head of the queue.
C26_ConnectionConfinement ==
    /\ [](\A i \in 1..Len(broker_calls) : broker_calls[i].thread = "worker")
    /\ [][/\ caller_pc' # caller_pc => broker_calls' = broker_calls
          /\ ibkr_quotes' # ibkr_quotes
             => /\ result_queue # <<>>
                /\ ibkr_quotes' = Some(Head(result_queue))]_vars

\* The worker has constructed the broker, connected, quoted and disconnected,
\* and the caller has taken the results from the queue.
C26_Witness ==
    /\ Called("IBKRBroker", "returned")
    /\ Called("connect", "returned")
    /\ Called("get_quote", "returned")
    /\ Called("disconnect", "returned")
    /\ ibkr_quotes # None
    /\ ibkr_quotes[1].status = "success"
    /\ data_source = "ibkr_live"

\* C27: the worker makes its get_quote calls one at a time and in the order
\* of the symbols it was given: the k-th call is for the k-th symbol, and it
\* has ended before the next one starts.
C27_FifoProcessing ==
    \A k \in 1..Len(QuoteCalls) :
        /\ (k + 1) \div 2 <= Len(symbols)
        /\ QuoteCalls[k].arg = symbols[(k + 1) \div 2]
        /\ (k % 2 = 1) = (QuoteCalls[k].phase = "start")

\* AAPL and then MSFT were asked for, and both calls have ended.
C27_Witness ==
    /\ symbols = <<"AAPL", "MSFT">>
    /\ Len(QuoteCalls) = 4
    /\ QuoteCalls[2].phase = "returned"
    /\ QuoteCalls[4].phase = "raised"

\* C28: a worker that has ended has put exactly one message, a 'success' or an
\* 'error' one, and no worker puts more than one; so the caller that finds
\* the worker ended finds a message, and never reports that there is none.
C28_OneResultMessage ==
    /\ MessagesPut <= 1
    /\ thread_pc \in {"returning", "done"} => MessagesPut = 1
    /\ \A i \in 1..Len(result_queue) : result_queue[i].status \in {"success", "error"}
    /\ caller_pc = "get_nowait" => result_queue # <<>>
    /\ ibkr_error # None => ibkr_error[1].msg # "No results from IBKR thread"

\* connect() raised in the worker, and the caller has taken the 'error'
\* message from the queue and answered from the database.
C28_Witness ==
    /\ thread_pc = "done"
    /\ Called("connect", "raised")
    /\ ibkr_quotes # None
    /\ ibkr_quotes[1].status = "error"
    /\ ibkr_quotes[1].message = "connect"
    /\ result_queue = <<>>
    /\ data_source = "database_fallback"

\* C29: a worker thread constructs one broker and connects once; once
\* connect() has returned the worker goes on to call disconnect(), and it has
\* called it by the time it puts its result and ends.
C29_WorkerTearsDown ==
    /\ [](/\ Len(SelectSeq(broker_calls, LAMBDA c : c.call = "IBKRBroker")) <= 1
          /\ Len(SelectSeq(broker_calls,
                           LAMBDA c : c.call = "connect" /\ c.phase = "start")) <= 1
          /\ (Called("connect", "returned")
              /\ thread_pc \in {"put_success", "put_error", "returning", "done"})
             => Called("disconnect", "start"))
    /\ (Called("connect", "returned") ~> Called("disconnect", "start"))

\* After a get_quote that raised, the worker has disconnected, put its
\* result and ended.
C29_Witness ==
    /\ Called("connect", "returned")
    /\ Called("get_quote", "raised")
    /\ Called("disconnect", "returned")
    /\ MessagesPut = 1
    /\ thread_pc = "done"

---------------------------------------------------------------------------
(* Order state *)

\* C30: for every stored MockBroker order, NEW implies no fill; PARTIAL implies
\* 1 <= filled_qty < request.qty; FILLED holds exactly when filled_qty is
\* request.qty; REJECTED implies filled_qty = 0; CANCELLED implies
\* filled_qty < request.qty; and filled_qty is the sum of the fills' quantities.
C30_StatusMatchesFilledQty ==
    \A id \in DOMAIN orders :
        LET order == orders[id]
        IN  /\ order.status = "NEW" => order.filled_qty = 0 /\ order.fills = <<>>
            /\ order.status = "PARTIAL"
               => 1 <= order.filled_qty /\ order.filled_qty < order.request.qty
            /\ (order.status = "FILLED") = (order.filled_qty = order.request.qty)
            /\ order.status = "REJECTED" => order.filled_qty = 0
            /\ order.status = "CANCELLED" => order.filled_qty < order.request.qty
            /\ order.filled_qty = FillsQty(order.fills)

\* get_order has filled a NEW order in part.
C30_Witness ==
    /\ last.op = "get_order"
    /\ last.arg \in DOMAIN orders
    /\ orders[last.arg].status = "PARTIAL"
    /\ orders[last.arg].filled_qty = 1
    /\ orders[last.arg].request.qty = 2
    /\ Len(orders[last.arg].fills) = 1

---------------------------------------------------------------------------
(* MockBroker: rejection, forced fills, stop orders *)

\* C31: the order a rejecting place_order stores is REJECTED with a
\* reject_reason, filled_qty 0 and no fills, the call leaves positions and
\* cash_balance as they were, and no later step changes a REJECTED order.
C31_RejectionHasNoSideEffects ==
    [][/\ \A id \in DOMAIN orders' :
             (id \notin DOMAIN orders /\ orders'[id].status = "REJECTED")
             => /\ orders'[id].reject_reason # None
                /\ orders'[id].filled_qty = 0
                /\ orders'[id].fills = <<>>
                /\ positions' = positions
                /\ cash_balance' = cash_balance
       /\ \A id \in DOMAIN orders :
             orders[id].status = "REJECTED"
             => id \in DOMAIN orders' /\ orders'[id] = orders[id]]_vars

\* force_fill_order has been called on a rejected order: it is still
\* REJECTED and unfilled, and no cash has moved.
C31_Witness ==
    /\ last.op = "force_fill_order"
    /\ last.arg \in DOMAIN orders
    /\ orders[last.arg].status = "REJECTED"
    /\ orders[last.arg].reject_reason # None
    /\ orders[last.arg].fills = <<>>
    /\ positions = EmptyMap
    /\ cash_balance = InitialCash

\* C32: force_fill_order on a known non-terminal order adds one fill of the
\* remaining quantity at the price given (the reference price of the symbol
\* when none is given), leaves the order FILLED with filled_qty = request.qty,
\* and moves the position and cash by that fill; on a terminal order it
\* changes nothing; on an unknown id it raises BrokerError.
C32_ForceFillOrder ==
    [][\A id \in OrderIds, fill_price \in ForcePrices :
          ForceFillOrder(id, fill_price)
          => IF id \notin DOMAIN orders
             THEN /\ last'.raised = "BrokerError"
                  /\ UNCHANGED <<orders, positions, cash_balance>>
             ELSE IF orders[id].status \in TerminalStatuses
             THEN /\ last'.raised = "None"
                  /\ UNCHANGED <<orders, positions, cash_balance>>
             ELSE LET order == orders[id]
                      qty == order.request.qty - order.filled_qty
                      price == IF fill_price = None
                               THEN Get(market_prices, order.request.symbol, DefaultPrice)
                               ELSE fill_price[1]
                  IN  /\ last'.raised = "None"
                      /\ DOMAIN orders' = DOMAIN orders
                      /\ \A other \in DOMAIN orders \ {id} : orders'[other] = orders[other]
                      /\ orders'[id].fills
                           = Append(order.fills, [price |-> price, qty |-> qty])
                      /\ orders'[id].status = "FILLED"
                      /\ orders'[id].filled_qty = order.request.qty
                      /\ positions' = UpdatePosition(positions, market_prices,
                                          order.request.symbol, order.request.side, qty, price)
                      /\ cash_balance' = UpdateCash(cash_balance, order.request.side,
                                                   qty, price)]_vars

\* A BUY order of 2, filled 1 by place_order, has been completed by
\* force_fill_order at a price other than the reference price.
C32_Witness ==
    /\ last.op = "force_fill_order"
    /\ last.arg \in DOMAIN orders
    /\ orders[last.arg].status = "FILLED"
    /\ orders[last.arg].request.side = "BUY"
    /\ Len(orders[last.arg].fills) = 2
    /\ orders[last.arg].fills[2].qty = 1
    /\ orders[last.arg].fills[2].price
         # Get(market_prices, orders[last.arg].request.symbol, DefaultPrice)

\* C36: an order of type STOP or STOP_LIMIT that place_order accepts gets one
\* fill in that call, at a price drawn around the reference price whatever its
\* stop_price and limit_price, and no stored order of these types is NEW.
C36_StopOrdersFillLikeMarket ==
    /\ [](\A id \in DOMAIN orders :
             orders[id].request.order_type \in {"STOP", "STOP_LIMIT"}
             => orders[id].status # "NEW")
    /\ [][\A id \in DOMAIN orders' :
             (/\ id \notin DOMAIN orders
              /\ orders'[id].request.order_type \in {"STOP", "STOP_LIMIT"}
              /\ orders'[id].status # "REJECTED")
             => /\ Len(orders'[id].fills) = 1
                /\ orders'[id].status \in {"PARTIAL", "FILLED"}
                /\ orders'[id].fills[1].price
                     \in MarketPriceDraws(Get(market_prices,
                                              orders'[id].request.symbol, DefaultPrice))]_vars

\* A BUY STOP_LIMIT order with limit 90 and stop 95 was filled by place_order
\* at a price above its limit, with the reference price at 100.
C36_Witness ==
    /\ last.op = "place_order"
    /\ last.raised = "None"
    /\ last.ret \in DOMAIN orders
    /\ orders[last.ret].request.order_type = "STOP_LIMIT"
    /\ orders[last.ret].request.side = "BUY"
    /\ orders[last.ret].status = "FILLED"
    /\ Len(orders[last.ret].fills) = 1
    /\ orders[last.ret].fills[1].price > orders[last.ret].request.limit_price[1]

---------------------------------------------------------------------------
(* MockBroker with two clients: the books *)

RECURSIVE NetFilledQty(_, _)
NetFilledQty(ids, symbol) ==
    IF ids = {} THEN 0
    ELSE LET id == CHOOSE x \in ids : TRUE
             order == orders[id]
             signed == IF order.request.symbol # symbol THEN 0
                       ELSE IF order.request.side = "BUY" THEN order.filled_qty
                       ELSE 0 - order.filled_qty
         IN  signed + NetFilledQty(ids \ {id}, symbol)

\* C33: for every symbol the position quantity, 0 when there is no position,
\* is the filled_qty of the symbol's BUY orders minus that of its SELL orders.
C33_PositionsEqualNetFills ==
    \A symbol \in Symbols \cup DOMAIN positions :
        (IF symbol \in DOMAIN positions THEN positions[symbol].qty ELSE 0)
            = NetFilledQty(DOMAIN orders, symbol)

\* A BUY order filled with 2 and a SELL order filled with 1 of 2 leave a
\* position of 1.
C33_Witness ==
    \E b, c \in DOMAIN orders :
        /\ orders[b].request.side = "BUY"
        /\ orders[b].filled_qty = 2
        /\ orders[c].request.side = "SELL"
        /\ orders[c].request.qty = 2
        /\ orders[c].filled_qty = 1
        /\ "XYZ" \in DOMAIN positions
        /\ positions["XYZ"].qty = 1

\* C34: client_order_map maps the accepted client_order_ids one-to-one onto
\* the keys of the order map; every order is stored under its own
\* broker_order_id and is the order of exactly one client_order_id, the one of
\* its request.
C34_IdentityMapsConsistent ==
    /\ \A cid \in DOMAIN client_order_map : client_order_map[cid] \in DOMAIN orders
    /\ \A c1, c2 \in DOMAIN client_order_map :
          client_order_map[c1] = client_order_map[c2] => c1 = c2
    /\ \A id \in DOMAIN orders :
          /\ orders[id].broker_order_id = id
          /\ orders[id].request.client_order_id \in DOMAIN client_order_map
          /\ \A cid \in DOMAIN client_order_map :
                (client_order_map[cid] = id) = (cid = orders[id].request.client_order_id)

\* Two clients have an order each, and a retry by the first got its own order back.
C34_Witness ==
    /\ Cardinality(DOMAIN orders) = 2
    /\ Cardinality(DOMAIN client_order_map) = 2
    /\ last.op = "place_order"
    /\ last.raised = "None"
    /\ last.ret = CounterStart
    /\ order_counter = CounterStart + 2

\* C35: get_order for an order that is not NEW leaves all orders, positions
\* and cash_balance unchanged; for a NEW order it changes no other order.
C35_GetOrderFillsOnlyNew ==
    [][\A id \in DOMAIN orders :
          (last'.op = "get_order" /\ last'.arg = id)
          => /\ DOMAIN orders' = DOMAIN orders
             /\ \A other \in DOMAIN orders \ {id} : orders'[other] = orders[other]
             /\ orders[id].status # "NEW"
                => UNCHANGED <<orders, positions, cash_balance>>]_vars

\* get_order has returned a PARTIAL order, still PARTIAL, with a second order
\* on the books.
C35_Witness ==
    /\ connected
    /\ last.op = "get_order"
    /\ last.raised = "None"
    /\ last.arg \in DOMAIN orders
    /\ orders[last.arg].status = "PARTIAL"
    /\ Cardinality(DOMAIN orders) = 2

---------------------------------------------------------------------------
(* The end of the caller's wait *)

\* C37: when a message is on the result queue at the moment thread.join
\* returns, the caller does not report the timeout.
C37_NoTimeoutWithResultQueued ==
    (queued_at_join # None /\ queued_at_join[1] > 0) => ~TimeoutReported

---------------------------------------------------------------------------
(* IBKRBroker: failed connects, order ids, failed operations *)

\* C38: when connect() raises BrokerError, is_connected() is false and the
\* session with the gateway is not left connected.
C38_FailedConnectLeavesNoSession ==
    [][(ib_last'.op = "connect" /\ ib_last'.raised = "BrokerError")
       => /\ ~IbIsConnected'
          /\ ~ib_session']_vars

\* C39: a successful place_order leaves every order tracked for another
\* client_order_id as it was, under its own broker_order_id.
C39_DistinctOrdersStayDistinct ==
    [][(ib_last'.op = "place_order" /\ ib_last'.raised = "None")
       => \A id \in DOMAIN ib_orders :
             ib_orders[id].request.client_order_id # ib_last'.arg
             => /\ id \in DOMAIN ib_orders'
                /\ ib_orders'[id] = ib_orders[id]]_vars

\* C40: a place_order or cancel_order that raises BrokerError leaves the map
\* of tracked orders, with every order's status, as it was.
C40_FailedOperationsChangeNothing ==
    [][(/\ ib_last'.op \in {"place_order", "cancel_order"}
        /\ ib_last'.raised = "BrokerError")
       => ib_orders' = ib_orders]_vars

\* cancel_order has raised after its call to the gateway failed, and the
\* order it was for is still tracked as NEW.
C40_Witness ==
    /\ ib_last.op = "cancel_order"
    /\ ib_last.raised = "BrokerError"
    /\ ib_last.venue = <<"cancelOrder">>
    /\ ib_last.arg \in DOMAIN ib_orders
    /\ ib_orders[ib_last.arg].status = "NEW"

====
